---- MODULE Spec2Model ----
(***************************************************************************)
(* Collections of source/blender/blenkernel/intern/collection.c: the       *)
(* parent/child graph of Collection datablocks, their object members, the  *)
(* recursive object cache and the scene iterators.                         *)
(***************************************************************************)
EXTENDS Integers, Sequences, FiniteSets, TLC

(* ------------------------------ bounds -------------------------------- *)

\* Non-master collections that can be allocated at the same time.
MaxColl == 3
\* Objects of the main database.
MaxObj == 2
\* Calls of the public API in one behaviour.
MaxOps == 4
\* Calls of the public API in a behaviour that starts in a scene which
\* earlier calls have built.
MaxOpsInScene == 3
\* Largest index asked of BKE_collection_from_index (the smallest is -1).
MaxIndex == 4
\* Threads that call BKE_collection_object_cache_get at the same time.
NumThreads == 3
\* Nested calls the stack of a caller holds.
MaxFrames == 4
\* Inputs a mesh input set holds at most.
MaxInputs == 4

(* ----------------------------- identities ----------------------------- *)

\* The scene's master collection (BKE_collection_master_add).
Master == 0
\* The NULL pointer.
NULL == -1

CollIds == 0 .. MaxColl
Objects == 1 .. MaxObj

COLLECTION_IS_MASTER == "IS_MASTER"
COLLECTION_RESTRICT_VIEW == "RESTRICT_VIEW"
COLLECTION_RESTRICT_SELECT == "RESTRICT_SELECT"
COLLECTION_RESTRICT_RENDER == "RESTRICT_RENDER"
COLLECTION_HAS_OBJECT_CACHE == "HAS_OBJECT_CACHE"

BASE_VISIBLED == "VISIBLED"
BASE_VISIBLE_VIEWPORT == "VISIBLE_VIEWPORT"
BASE_SELECTABLED == "SELECTABLED"
BASE_VISIBLE_RENDER == "VISIBLE_RENDER"
BASE_SELECTED == "SELECTED"

\* Restriction bits a caller gives a collection before it is first used.
RestrictChoices ==
  { {}, {COLLECTION_RESTRICT_VIEW}, {COLLECTION_RESTRICT_SELECT, COLLECTION_RESTRICT_RENDER} }

(* ------------------------------- state -------------------------------- *)

VARIABLES
  colls,         \* the collections that exist: the master and those of bmain
  children,      \* Collection.children: the CollectionChild list, in order
  parents,       \* Collection.parents: the CollectionParent list, in order
  gobject,       \* Collection.gobject: the CollectionObject list, in order
  flag,          \* Collection.flag
  object_cache,  \* Collection.object_cache: the list of Base
  dup_group,     \* Object.dup_group
  last,          \* the last call of the public API and what it returned
  nops,          \* the calls made, counted up to MaxOps
  hung,          \* a call is spinning in a loop it never leaves
  iter,          \* the scene iterator in use, if any
  threads,       \* the threads inside BKE_collection_object_cache_get
  view_layer,    \* the Base of each object in the view layer, if it has one
  inputs         \* the mesh input sets of the host, and the last call on them

graph == <<colls, children, parents, gobject, flag, object_cache, dup_group>>
vars == <<colls, children, parents, gobject, flag, object_cache, dup_group,
          last, nops, hung, iter, threads, view_layer, inputs>>

\* The data of main as one value, so that the functions of the file compose.
World ==
  [colls |-> colls, children |-> children, parents |-> parents,
   gobject |-> gobject, flag |-> flag, object_cache |-> object_cache,
   dup_group |-> dup_group]

(* --------------------------- ListBase helpers ------------------------- *)

\* BLI_findptr / BLI_findindex: position of the first link holding x, 0 if none.
FindIndex(s, x) ==
  IF \E i \in DOMAIN s : s[i] = x
    THEN CHOOSE i \in DOMAIN s : s[i] = x /\ \A j \in 1 .. (i - 1) : s[j] # x
    ELSE 0

\* BLI_remlink / BLI_freelinkN of the link at position i (nothing when i = 0).
RemoveAt(s, i) ==
  IF i = 0 THEN s ELSE SubSeq(s, 1, i - 1) \o SubSeq(s, i + 1, Len(s))

\* BLI_freelinkN of the first link holding x.
RemoveFirst(s, x) == RemoveAt(s, FindIndex(s, x))

\* The list with x put right behind position i (i = 0: at the head).
InsertAfter(s, i, x) == SubSeq(s, 1, i) \o <<x>> \o SubSeq(s, i + 1, Len(s))

Range(s) == { s[i] : i \in DOMAIN s }

(* ------------------------- Object List Cache -------------------------- *)

\* The Base made for an object met under the restriction bits child_restrict.
NewBase(ob, child_restrict) ==
  [object |-> ob,
   flag |->
     (IF COLLECTION_RESTRICT_VIEW \notin child_restrict
        THEN {BASE_VISIBLED, BASE_VISIBLE_VIEWPORT}
             \cup (IF COLLECTION_RESTRICT_SELECT \notin child_restrict
                     THEN {BASE_SELECTABLED} ELSE {})
        ELSE {})
     \cup (IF COLLECTION_RESTRICT_RENDER \notin child_restrict
             THEN {BASE_VISIBLE_RENDER} ELSE {})]

\* The first loop of collection_object_cache_fill without the BLI_findptr
\* lookup: a new Base for every member, from position i on.
fill_objects_no_lookup(lb, obs, i, child_restrict) ==
  lb \o [k \in 1 .. (Len(obs) - i + 1) |-> NewBase(obs[i + k - 1], child_restrict)]

\* The first loop of collection_object_cache_fill, from position i on.
RECURSIVE cache_fill_objects(_, _, _, _)
cache_fill_objects(lb, obs, i, child_restrict) ==
  IF i > Len(obs) THEN lb
  ELSE cache_fill_objects(
         IF \E k \in DOMAIN lb : lb[k].object = obs[i]
           THEN lb
           ELSE Append(lb, NewBase(obs[i], child_restrict)),
         obs, i + 1, child_restrict)

RECURSIVE collection_object_cache_fill(_, _, _, _)
RECURSIVE cache_fill_children(_, _, _, _, _)

\* collection_object_cache_fill that leaves parent_restrict out of
\* child_restrict.
fill_own_restrict_only(w, lb, collection, parent_restrict) ==
  LET child_restrict == w.flag[collection]
      lb1 == cache_fill_objects(lb, w.gobject[collection], 1, child_restrict)
  IN cache_fill_children(w, lb1, w.children[collection], 1, child_restrict)

collection_object_cache_fill(w, lb, collection, parent_restrict) ==
  LET child_restrict == w.flag[collection] \cup parent_restrict
      lb1 == cache_fill_objects(lb, w.gobject[collection], 1, child_restrict)
  IN cache_fill_children(w, lb1, w.children[collection], 1, child_restrict)

\* The second loop of collection_object_cache_fill, from position i on.
cache_fill_children(w, lb, chs, i, child_restrict) ==
  IF i > Len(chs) THEN lb
  ELSE cache_fill_children(
         w, collection_object_cache_fill(w, lb, chs[i], child_restrict),
         chs, i + 1, child_restrict)

\* BKE_collection_object_cache_get without its tests of
\* COLLECTION_HAS_OBJECT_CACHE, filling a new list onto the end of the stored one.
cache_get_always_fill(w, collection) ==
  [w EXCEPT
     !.object_cache[collection] =
        @ \o collection_object_cache_fill(w, <<>>, collection, {}),
     !.flag[collection] = @ \cup {COLLECTION_HAS_OBJECT_CACHE}]

BKE_collection_object_cache_get(w, collection) ==
  IF COLLECTION_HAS_OBJECT_CACHE \notin w.flag[collection]
    THEN [w EXCEPT
            !.object_cache[collection] =
               collection_object_cache_fill(w, w.object_cache[collection], collection, {}),
            !.flag[collection] = @ \cup {COLLECTION_HAS_OBJECT_CACHE}]
    ELSE w

\* collection_object_cache_free without its loop over the parents: only the
\* collection's own cache is dropped.
cache_free_no_parents(w, collection) ==
  [w EXCEPT !.flag[collection] = @ \ {COLLECTION_HAS_OBJECT_CACHE},
            !.object_cache[collection] = <<>>]

RECURSIVE collection_object_cache_free(_, _)
RECURSIVE cache_free_parents(_, _, _)

collection_object_cache_free(w, collection) ==
  cache_free_parents(
    [w EXCEPT !.flag[collection] = @ \ {COLLECTION_HAS_OBJECT_CACHE},
              !.object_cache[collection] = <<>>],
    w.parents[collection], 1)

\* The loop of collection_object_cache_free over the parents, from position i on.
cache_free_parents(w, ps, i) ==
  IF i > Len(ps) THEN w
  ELSE cache_free_parents(collection_object_cache_free(w, ps[i]), ps, i + 1)

BKE_collection_object_cache_free(w, collection) ==
  collection_object_cache_free(w, collection)

(* --------------------------- Cyclic checks ---------------------------- *)

\* BKE_collection_find_cycle that does not walk the parents: it answers true
\* as soon as new_ancestor has a parent at all.
find_cycle_any_parent(w, new_ancestor, collection) ==
  \/ collection = new_ancestor
  \/ w.parents[new_ancestor] # <<>>

RECURSIVE BKE_collection_find_cycle(_, _, _)
BKE_collection_find_cycle(w, new_ancestor, collection) ==
  \/ collection = new_ancestor
  \/ \E i \in DOMAIN w.parents[new_ancestor] :
       BKE_collection_find_cycle(w, w.parents[new_ancestor][i], collection)

collection_find_child(w, parent, collection) ==
  FindIndex(w.children[parent], collection)

RECURSIVE collection_find_child_recursive(_, _, _)
collection_find_child_recursive(w, parent, collection) ==
  \E i \in DOMAIN w.children[parent] :
     \/ w.children[parent][i] = collection
     \/ collection_find_child_recursive(w, w.children[parent][i], collection)

collection_find_parent(w, child, collection) ==
  FindIndex(w.parents[child], collection)

RECURSIVE BKE_collection_is_in_scene(_, _)
BKE_collection_is_in_scene(w, collection) ==
  \/ COLLECTION_IS_MASTER \in w.flag[collection]
  \/ \E i \in DOMAIN w.parents[collection] :
       BKE_collection_is_in_scene(w, w.parents[collection][i])

(* ------------------------ Collection children ------------------------- *)

\* collection_child_add that adds no parent link whatever the flag says, as
\* the code does for depsgraph datablocks only.
child_add_no_parent_link(w, parent, collection, no_main) ==
  IF collection_find_child(w, parent, collection) # 0
    THEN [w |-> w, ret |-> FALSE]
  ELSE IF BKE_collection_find_cycle(w, parent, collection)
    THEN [w |-> w, ret |-> FALSE]
  ELSE
    LET w1 == [w EXCEPT !.children[parent] = Append(@, collection)]
    IN [w |-> BKE_collection_object_cache_free(w1, parent), ret |-> TRUE]

\* collection_child_add that frees the parent's cache before its two checks
\* instead of after the links are made.
child_add_free_first(w, parent, collection, no_main) ==
  LET w0 == BKE_collection_object_cache_free(w, parent)
  IN IF collection_find_child(w0, parent, collection) # 0
       THEN [w |-> w0, ret |-> FALSE]
     ELSE IF BKE_collection_find_cycle(w0, parent, collection)
       THEN [w |-> w0, ret |-> FALSE]
     ELSE
       LET w1 == [w0 EXCEPT !.children[parent] = Append(@, collection)]
           w2 == IF no_main THEN w1
                 ELSE [w1 EXCEPT !.parents[collection] = Append(@, parent)]
       IN [w |-> w2, ret |-> TRUE]

\* no_main stands for (flag & LIB_ID_CREATE_NO_MAIN) != 0.
collection_child_add(w, parent, collection, no_main) ==
  IF collection_find_child(w, parent, collection) # 0
    THEN [w |-> w, ret |-> FALSE]
  ELSE IF BKE_collection_find_cycle(w, parent, collection)
    THEN [w |-> w, ret |-> FALSE]
  ELSE
    LET w1 == [w EXCEPT !.children[parent] = Append(@, collection)]
        w2 == IF no_main THEN w1
              ELSE [w1 EXCEPT !.parents[collection] = Append(@, parent)]
    IN [w |-> BKE_collection_object_cache_free(w2, parent), ret |-> TRUE]

\* collection_child_remove that frees the parent back-reference and leaves
\* the child-edge in the parent's list.
child_remove_keep_child_link(w, parent, collection) ==
  IF collection_find_parent(w, collection, parent) = 0
    THEN [w |-> w, ret |-> FALSE]
  ELSE
    LET w1 == [w EXCEPT
                 !.parents[collection] =
                    RemoveAt(@, collection_find_parent(w, collection, parent))]
    IN [w |-> BKE_collection_object_cache_free(w1, parent), ret |-> TRUE]

collection_child_remove(w, parent, collection) ==
  IF collection_find_child(w, parent, collection) = 0
    THEN [w |-> w, ret |-> FALSE]
  ELSE
    LET w1 == [w EXCEPT
                 !.parents[collection] =
                    RemoveAt(@, collection_find_parent(w, collection, parent)),
                 !.children[parent] =
                    RemoveAt(@, collection_find_child(w, parent, collection))]
    IN [w |-> BKE_collection_object_cache_free(w1, parent), ret |-> TRUE]

(* ------------------------- Collection objects ------------------------- *)

collection_object_add(w, collection, ob) ==
  IF /\ w.dup_group[ob] # NULL
     /\ collection_find_child_recursive(w, collection, w.dup_group[ob])
    THEN [w |-> w, ret |-> FALSE]
  ELSE IF FindIndex(w.gobject[collection], ob) # 0
    THEN [w |-> w, ret |-> FALSE]
  ELSE
    LET w1 == [w EXCEPT !.gobject[collection] = Append(@, ob)]
    IN [w |-> BKE_collection_object_cache_free(w1, collection), ret |-> TRUE]

\* collection_object_remove that frees the cache before it looks for the
\* member instead of after it has removed it.
object_remove_free_first(w, collection, ob) ==
  LET w0 == BKE_collection_object_cache_free(w, collection)
  IN IF FindIndex(w0.gobject[collection], ob) = 0
       THEN [w |-> w0, ret |-> FALSE]
     ELSE [w |-> [w0 EXCEPT !.gobject[collection] = RemoveFirst(@, ob)],
           ret |-> TRUE]

\* collection_object_remove without the call of BKE_collection_object_cache_free.
object_remove_keep_cache(w, collection, ob) ==
  IF FindIndex(w.gobject[collection], ob) = 0
    THEN [w |-> w, ret |-> FALSE]
  ELSE [w |-> [w EXCEPT !.gobject[collection] = RemoveFirst(@, ob)], ret |-> TRUE]

collection_object_remove(w, collection, ob) ==
  IF FindIndex(w.gobject[collection], ob) = 0
    THEN [w |-> w, ret |-> FALSE]
  ELSE
    LET w1 == [w EXCEPT !.gobject[collection] = RemoveFirst(@, ob)]
    IN [w |-> BKE_collection_object_cache_free(w1, collection), ret |-> TRUE]

\* collection and ob are not NULL.  sync: BKE_main_collection_sync was called.
BKE_collection_object_add(w, collection, ob) ==
  LET r == collection_object_add(w, collection, ob)
  IN [w |-> r.w, ret |-> r.ret,
      sync |-> r.ret /\ BKE_collection_is_in_scene(r.w, collection)]

\* BKE_collection_object_remove that calls BKE_main_collection_sync without
\* asking BKE_collection_is_in_scene.
object_remove_always_sync(w, collection, ob) ==
  LET r == collection_object_remove(w, collection, ob)
  IN [w |-> r.w, ret |-> r.ret, sync |-> r.ret]

\* collection and ob are not NULL.
BKE_collection_object_remove(w, collection, ob) ==
  LET r == collection_object_remove(w, collection, ob)
  IN [w |-> r.w, ret |-> r.ret,
      sync |-> r.ret /\ BKE_collection_is_in_scene(r.w, collection)]

(* --------------------------- Add collection --------------------------- *)

\* BKE_libblock_alloc: the block the allocator hands out (the lowest one free).
NewId(w) == CHOOSE n \in (1 .. MaxColl) \ w.colls :
               \A m \in (1 .. MaxColl) \ w.colls : n <= m

CanAlloc(w) == (1 .. MaxColl) \ w.colls # {}

\* collection_parent may be NULL.  restrict: the restriction bits the caller
\* sets on the new datablock before anything else uses it.
collection_add(w, collection_parent, restrict) ==
  LET collection == NewId(w)
      w1 == [w EXCEPT !.colls = @ \cup {collection},
                      !.flag[collection] = restrict,
                      !.children[collection] = <<>>,
                      !.parents[collection] = <<>>,
                      !.gobject[collection] = <<>>,
                      !.object_cache[collection] = <<>>]
  IN IF collection_parent # NULL
       THEN [w |-> collection_child_add(w1, collection_parent, collection, FALSE).w,
             new |-> collection]
       ELSE [w |-> w1, new |-> collection]

(* -------------------- Free and delete collection ---------------------- *)

\* lib_remap on deletion: every ID pointer to the datablock becomes NULL.
libblock_remap_null(w, old_collection) ==
  [w EXCEPT
     !.children = [c \in CollIds |->
                     [i \in DOMAIN w.children[c] |->
                        IF w.children[c][i] = old_collection THEN NULL
                        ELSE w.children[c][i]]],
     !.dup_group = [o \in Objects |->
                      IF w.dup_group[o] = old_collection THEN NULL
                      ELSE w.dup_group[o]]]

\* The list without its NULL entries.
RECURSIVE RemoveNulls(_)
RemoveNulls(s) ==
  IF s = <<>> THEN <<>>
  ELSE IF Head(s) = NULL THEN RemoveNulls(Tail(s))
  ELSE <<Head(s)>> \o RemoveNulls(Tail(s))

\* First loop of BKE_collections_child_remove_nulls, from position i on.
RECURSIVE remove_nulls_children(_, _, _, _)
remove_nulls_children(w, old_collection, chs, i) ==
  IF i > Len(chs) THEN w
  ELSE remove_nulls_children(
         IF chs[i] = NULL THEN w
         ELSE [w EXCEPT !.parents[chs[i]] = RemoveFirst(@, old_collection)],
         old_collection, chs, i + 1)

\* Second loop of BKE_collections_child_remove_nulls, from parent position i on.
RECURSIVE remove_nulls_parents(_, _, _)
remove_nulls_parents(w, ps, i) ==
  IF i > Len(ps) THEN w
  ELSE remove_nulls_parents(
         [w EXCEPT !.children[ps[i]] = RemoveNulls(@)], ps, i + 1)

BKE_collections_child_remove_nulls(w, old_collection) ==
  LET w1 == remove_nulls_children(w, old_collection, w.children[old_collection], 1)
      w2 == remove_nulls_parents(w1, w1.parents[old_collection], 1)
  IN [w2 EXCEPT !.parents[old_collection] = <<>>]

BKE_collection_free(w, collection) ==
  BKE_collection_object_cache_free(
    [w EXCEPT !.gobject[collection] = <<>>,
              !.children[collection] = <<>>,
              !.parents[collection] = <<>>],
    collection)

\* BKE_libblock_delete of a collection: the pointers to it are remapped to NULL,
\* the NULL children are dropped, the caches that held its content are freed,
\* and the datablock is freed and leaves main.
BKE_libblock_delete(w, collection) ==
  LET former == w.parents[collection]
      w1 == libblock_remap_null(w, collection)
      w2 == BKE_collections_child_remove_nulls(w1, collection)
      w3 == cache_free_parents(w2, former, 1)
      w4 == BKE_collection_free(w3, collection)
  IN [w4 EXCEPT !.colls = @ \ {collection}, !.flag[collection] = {}]

\* "Remove child objects" loop of BKE_collection_delete.
RECURSIVE delete_remove_objects(_, _)
delete_remove_objects(w, collection) ==
  IF w.gobject[collection] = <<>> THEN w
  ELSE delete_remove_objects(
         collection_object_remove(w, collection, Head(w.gobject[collection])).w,
         collection)

\* The inner loop over collection->parents linking one child collection.
RECURSIVE delete_link_child(_, _, _, _)
delete_link_child(w, ps, j, child) ==
  IF j > Len(ps) THEN w
  ELSE delete_link_child(collection_child_add(w, ps[j], child, FALSE).w, ps, j + 1, child)

\* "Link child collections into parent collection", from child position i on.
RECURSIVE delete_link_children(_, _, _)
delete_link_children(w, collection, i) ==
  IF i > Len(w.children[collection]) THEN w
  ELSE delete_link_children(
         delete_link_child(w, w.parents[collection], 1, w.children[collection][i]),
         collection, i + 1)

\* The inner loop over collection->parents linking one object.
RECURSIVE delete_link_object(_, _, _, _)
delete_link_object(w, collection, j, ob) ==
  IF j > Len(w.parents[collection]) THEN w
  ELSE delete_link_object(
         collection_object_add(w, w.parents[collection][j], ob).w,
         collection, j + 1, ob)

\* "Link child object into parent collections", then "Remove child object".
RECURSIVE delete_link_objects(_, _)
delete_link_objects(w, collection) ==
  IF w.gobject[collection] = <<>> THEN w
  ELSE LET ob == Head(w.gobject[collection])
           w1 == delete_link_object(w, collection, 1, ob)
       IN delete_link_objects(collection_object_remove(w1, collection, ob).w, collection)

\* st: "ok" the call returned; "spin" it never leaves the loop over the child
\* collections; "crash" it reads through a NULL child.
RECURSIVE BKE_collection_delete(_, _, _)
RECURSIVE delete_children(_, _)

BKE_collection_delete(w, collection, hierarchy) ==
  IF COLLECTION_IS_MASTER \in w.flag[collection]
    THEN [w |-> w, ret |-> FALSE, st |-> "ok"]
  ELSE IF hierarchy
    THEN LET r == delete_children(delete_remove_objects(w, collection), collection)
         IN IF r.st # "ok" THEN r
            ELSE [w |-> BKE_libblock_delete(r.w, collection), ret |-> TRUE, st |-> "ok"]
  ELSE
    LET w1 == delete_link_children(w, collection, 1)
        w2 == delete_link_objects(w1, collection)
    IN [w |-> BKE_libblock_delete(w2, collection), ret |-> TRUE, st |-> "ok"]

\* "Delete all child collections recursively" loop of BKE_collection_delete.
delete_children(w, collection) ==
  IF w.children[collection] = <<>> THEN [w |-> w, ret |-> TRUE, st |-> "ok"]
  ELSE LET child == Head(w.children[collection])
       IN IF child = NULL THEN [w |-> w, ret |-> FALSE, st |-> "crash"]
          ELSE LET r == BKE_collection_delete(w, child, TRUE)
               IN IF r.st # "ok" THEN r
                  ELSE IF r.w.children[collection] = w.children[collection]
                    THEN [w |-> r.w, ret |-> FALSE, st |-> "spin"]
                  ELSE delete_children(r.w, collection)

(* -------------------------- Collection copy --------------------------- *)

\* The loop of BKE_collection_copy_data over the source's children, from i on.
RECURSIVE copy_data_children(_, _, _, _, _)
copy_data_children(w, collection_dst, chs, i, no_main) ==
  IF i > Len(chs) THEN w
  ELSE copy_data_children(
         collection_child_add(w, collection_dst, chs[i], no_main).w,
         collection_dst, chs, i + 1, no_main)

\* The loop of BKE_collection_copy_data over the source's objects, from i on.
RECURSIVE copy_data_objects(_, _, _, _)
copy_data_objects(w, collection_dst, obs, i) ==
  IF i > Len(obs) THEN w
  ELSE copy_data_objects(
         collection_object_add(w, collection_dst, obs[i]).w,
         collection_dst, obs, i + 1)

BKE_collection_copy_data(w, collection_dst, collection_src, no_main) ==
  LET w1 == [w EXCEPT
               !.flag[collection_dst] = @ \ {COLLECTION_HAS_OBJECT_CACHE},
               !.object_cache[collection_dst] = <<>>,
               !.gobject[collection_dst] = <<>>,
               !.children[collection_dst] = <<>>,
               !.parents[collection_dst] = <<>>]
      w2 == copy_data_children(w1, collection_dst, w.children[collection_src], 1, no_main)
  IN copy_data_objects(w2, collection_dst, w.gobject[collection_src], 1)

\* BKE_id_copy_ex of a collection: a new block of main holding a copy of the
\* source's fields, then BKE_collection_copy_data.
BKE_id_copy_ex(w, collection) ==
  LET collection_new == NewId(w)
      w1 == [w EXCEPT !.colls = @ \cup {collection_new},
                      !.flag[collection_new] = w.flag[collection],
                      !.object_cache[collection_new] = w.object_cache[collection],
                      !.gobject[collection_new] = w.gobject[collection],
                      !.children[collection_new] = w.children[collection],
                      !.parents[collection_new] = w.parents[collection]]
  IN [w |-> BKE_collection_copy_data(w1, collection_new, collection, FALSE),
      new |-> collection_new]

\* BLI_remlink of the link at position i, then BLI_insertlinkafter (after) or
\* BLI_insertlinkbefore (otherwise) with the link at position r as the anchor.
\* When the anchor is the link itself (r = i) the insertion ties the link to
\* itself and leaves the list as the removal left it, except that an empty
\* list takes the link as its only element.
MoveLink(s, i, r, after) ==
  LET s1 == RemoveAt(s, i)
      r1 == IF r > i THEN r - 1 ELSE r
  IN IF i = 0 THEN s
     ELSE IF r = i
       THEN (IF s1 = <<>> THEN <<s[i]>> ELSE s1)
     ELSE IF after THEN InsertAfter(s1, r1, s[i])
     ELSE InsertAfter(s1, r1 - 1, s[i])

\* parent may be NULL.
BKE_collection_copy(w, parent, collection) ==
  IF COLLECTION_IS_MASTER \in w.flag[collection]
    THEN [w |-> w, new |-> NULL, sync |-> FALSE]
  ELSE
    LET c == BKE_id_copy_ex(w, collection)
        collection_new == c.new
        a == IF parent # NULL
               THEN collection_child_add(c.w, parent, collection_new, FALSE)
               ELSE [w |-> c.w, ret |-> FALSE]
        child == IF parent # NULL THEN collection_find_child(a.w, parent, collection) ELSE 0
        child_new == IF parent # NULL
                       THEN collection_find_child(a.w, parent, collection_new) ELSE 0
    IN [w |-> IF a.ret /\ child # 0 /\ child_new # 0
                THEN [a.w EXCEPT !.children[parent] = MoveLink(@, child_new, child, TRUE)]
                ELSE a.w,
        new |-> collection_new, sync |-> TRUE]

(* ---------------- Collection move (outliner drag & drop) -------------- *)

\* from_parent and relative may be NULL.
\* BKE_collection_move without its first test, the one of COLLECTION_IS_MASTER.
move_no_master_test(w, to_parent, from_parent, relative, relative_after, collection) ==
  IF BKE_collection_find_cycle(w, to_parent, collection)
    THEN [w |-> w, ret |-> FALSE]
  ELSE
    LET w1 == IF from_parent # NULL
                THEN collection_child_remove(w, from_parent, collection).w
                ELSE w
        w2 == collection_child_add(w1, to_parent, collection, FALSE).w
        child == collection_find_child(w2, to_parent, collection)
        relative_child == IF relative # NULL
                            THEN collection_find_child(w2, to_parent, relative)
                            ELSE 0
    IN IF relative # NULL /\ relative_child # 0
         THEN [w |-> BKE_collection_object_cache_free(
                       [w2 EXCEPT !.children[to_parent] =
                                     MoveLink(@, child, relative_child, relative_after)],
                       to_parent),
               ret |-> TRUE]
         ELSE [w |-> w2, ret |-> TRUE]

BKE_collection_move(w, to_parent, from_parent, relative, relative_after, collection) ==
  IF COLLECTION_IS_MASTER \in w.flag[collection]
    THEN [w |-> w, ret |-> FALSE]
  ELSE IF BKE_collection_find_cycle(w, to_parent, collection)
    THEN [w |-> w, ret |-> FALSE]
  ELSE
    LET w1 == IF from_parent # NULL
                THEN collection_child_remove(w, from_parent, collection).w
                ELSE w
        w2 == collection_child_add(w1, to_parent, collection, FALSE).w
        child == collection_find_child(w2, to_parent, collection)
        relative_child == IF relative # NULL
                            THEN collection_find_child(w2, to_parent, relative)
                            ELSE 0
    IN IF relative # NULL /\ relative_child # 0
         THEN [w |-> BKE_collection_object_cache_free(
                       [w2 EXCEPT !.children[to_parent] =
                                     MoveLink(@, child, relative_child, relative_after)],
                       to_parent),
               ret |-> TRUE]
         ELSE [w |-> w2, ret |-> TRUE]

(* -------------------------- Collection index -------------------------- *)

RECURSIVE collection_from_index_recursive(_, _, _, _)
RECURSIVE from_index_children(_, _, _, _, _)

\* The loop of collection_from_index_recursive that hands every child the
\* value index_current had when the loop began, not what the child before
\* left in it.
from_index_children_by_value(w, chs, i, index, index_current) ==
  IF i > Len(chs) THEN [ret |-> NULL, index_current |-> index_current]
  ELSE LET nested == collection_from_index_recursive(w, chs[i], index, index_current)
       IN IF nested.ret # NULL THEN nested
          ELSE from_index_children(w, chs, i + 1, index, index_current)

\* ret: the collection returned; index_current: *index_current on return.
collection_from_index_recursive(w, collection, index, index_current) ==
  IF index = index_current
    THEN [ret |-> collection, index_current |-> index_current]
  ELSE from_index_children(w, w.children[collection], 1, index, index_current + 1)

\* The loop of collection_from_index_recursive, from child position i on.
from_index_children(w, chs, i, index, index_current) ==
  IF i > Len(chs) THEN [ret |-> NULL, index_current |-> index_current]
  ELSE LET nested == collection_from_index_recursive(w, chs[i], index, index_current)
       IN IF nested.ret # NULL THEN nested
          ELSE from_index_children(w, chs, i + 1, index, nested.index_current)

BKE_collection_from_index(w, index) ==
  collection_from_index_recursive(w, Master, index, 0).ret

(* ------------------------------ Iterators ----------------------------- *)

\* The loop of scene_collection_callback over the children without the
\* recursive call: the children themselves, from position i on.
callback_children_flat(w, chs, i) == SubSeq(chs, i, Len(chs))

\* The collections scene_collection_callback hands to its callback, in order.
RECURSIVE scene_collection_callback(_, _)
RECURSIVE scene_collection_callback_children(_, _, _)

scene_collection_callback(w, collection) ==
  <<collection>> \o scene_collection_callback_children(w, w.children[collection], 1)

scene_collection_callback_children(w, chs, i) ==
  IF i > Len(chs) THEN <<>>
  ELSE scene_collection_callback(w, chs[i])
       \o scene_collection_callback_children(w, chs, i + 1)

\* tot counts the calls of the first pass, array holds those of the second.
scene_collections_array(w) ==
  [array |-> scene_collection_callback(w, Master),
   tot |-> Len(scene_collection_callback(w, Master))]

\* No iterator is in use.
IterNone ==
  [kind |-> "none", array |-> <<>>, tot |-> 0, cur |-> 0,
   cvalid |-> FALSE, ccurrent |-> NULL,
   visited |-> {}, cob_coll |-> NULL, cob_idx |-> 0,
   valid |-> FALSE, current |-> NULL, out |-> <<>>]

\* On the CollectionsIteratorData part of the record (array is 0-based in C).
BKE_scene_collections_iterator_begin(it, w) ==
  LET a == scene_collections_array(w)
  IN [it EXCEPT !.array = a.array, !.tot = a.tot, !.cur = 0,
                !.cvalid = TRUE, !.ccurrent = a.array[1]]

BKE_scene_collections_iterator_next(it) ==
  IF it.cur + 1 < it.tot
    THEN [it EXCEPT !.cur = @ + 1, !.ccurrent = it.array[it.cur + 2]]
    ELSE [it EXCEPT !.cur = @ + 1, !.cvalid = FALSE]

\* Position of the first object of obs, from position i on, that is not in gs
\* (0: none).  The caller adds the object found to the set.
RECURSIVE object_base_unique(_, _, _)
object_base_unique(gs, obs, i) ==
  IF i = 0 \/ i > Len(obs) THEN 0
  ELSE IF obs[i] \notin gs THEN i
  ELSE object_base_unique(gs, obs, i + 1)

\* cob->next of the link at position i of obs.
NextLink(obs, i) == IF i < Len(obs) THEN i + 1 ELSE 0

\* The do-while loop of BKE_scene_objects_iterator_next.
RECURSIVE objects_iterator_next_loop(_, _)
objects_iterator_next_loop(it, w) ==
  LET collection == it.ccurrent
      obs == w.gobject[collection]
      new_cob == object_base_unique(it.visited, obs, IF obs = <<>> THEN 0 ELSE 1)
      it1 == BKE_scene_collections_iterator_next(it)
  IN IF new_cob # 0
       THEN [it EXCEPT !.visited = @ \cup {obs[new_cob]},
                       !.cob_coll = collection, !.cob_idx = NextLink(obs, new_cob),
                       !.current = obs[new_cob]]
     ELSE IF it1.cvalid THEN objects_iterator_next_loop(it1, w)
     ELSE [it1 EXCEPT !.valid = FALSE]

BKE_scene_objects_iterator_next(it, w) ==
  LET obs == IF it.cob_idx # 0 THEN w.gobject[it.cob_coll] ELSE <<>>
      cob == object_base_unique(it.visited, obs, it.cob_idx)
  IN IF cob # 0
       THEN [it EXCEPT !.visited = @ \cup {obs[cob]},
                       !.cob_idx = NextLink(obs, cob),
                       !.current = obs[cob]]
       ELSE objects_iterator_next_loop(BKE_scene_collections_iterator_next(it), w)

\* iter->valid is true when the begin callback is entered (BLI_ITERATOR_INIT).
BKE_scene_objects_iterator_begin(w) ==
  LET it == BKE_scene_collections_iterator_begin(
              [IterNone EXCEPT !.kind = "objects", !.valid = TRUE], w)
      collection == it.ccurrent
  IN IF w.gobject[collection] # <<>>
       THEN [it EXCEPT !.current = w.gobject[collection][1]]
       ELSE BKE_scene_objects_iterator_next(it, w)

\* The body of a FOREACH loop runs on iter->current whenever iter->valid holds.
Yield(it) == IF it.valid THEN [it EXCEPT !.out = Append(@, it.current)] ELSE it

(* ---------------------------- Object move ----------------------------- *)

\* The FOREACH_SCENE_COLLECTION loop of scene_collections_object_remove over
\* the array the iterator has built, from position i on.
RECURSIVE scene_collections_object_remove_loop(_, _, _, _, _)
scene_collections_object_remove_loop(w, array, i, ob, collection_skip) ==
  IF i > Len(array) THEN w
  ELSE scene_collections_object_remove_loop(
         IF array[i] # collection_skip
           THEN collection_object_remove(w, array[i], ob).w
           ELSE w,
         array, i + 1, ob, collection_skip)

\* It ends with a call of BKE_main_collection_sync.
scene_collections_object_remove(w, ob, collection_skip) ==
  scene_collections_object_remove_loop(
    w, scene_collections_array(w).array, 1, ob, collection_skip)

\* collection_src may be NULL.  sync: BKE_main_collection_sync was called
\* after the last change the call made.
BKE_collection_object_move(w, collection_dst, collection_src, ob) ==
  IF collection_src # NULL
    THEN LET a == BKE_collection_object_add(w, collection_dst, ob)
             r == BKE_collection_object_remove(a.w, collection_src, ob)
         IN IF ~a.ret THEN [w |-> a.w, sync |-> a.sync]
            ELSE IF r.ret THEN [w |-> r.w, sync |-> r.sync]
            ELSE [w |-> a.w, sync |-> a.sync]
    ELSE LET a == BKE_collection_object_add(w, collection_dst, ob)
         IN [w |-> scene_collections_object_remove(a.w, ob, collection_dst),
             sync |-> TRUE]

(* ---------------------- Collection objects select --------------------- *)

\* The loop of collection_objects_select over collection->gobject, from
\* position i on.  vl[ob].base: BKE_view_layer_base_find finds a Base.
RECURSIVE select_objects(_, _, _, _)
select_objects(vl, obs, i, deselect) ==
  IF i > Len(obs) THEN [vl |-> vl, changed |-> FALSE]
  ELSE
    LET ob == obs[i]
        hit == /\ vl[ob].base
               /\ IF deselect THEN BASE_SELECTED \in vl[ob].flag
                  ELSE /\ BASE_SELECTABLED \in vl[ob].flag
                       /\ BASE_SELECTED \notin vl[ob].flag
        vl1 == IF ~hit THEN vl
               ELSE IF deselect
                 THEN [vl EXCEPT ![ob].flag = @ \ {BASE_SELECTED}]
               ELSE [vl EXCEPT ![ob].flag = @ \cup {BASE_SELECTED}]
        r == select_objects(vl1, obs, i + 1, deselect)
    IN [vl |-> r.vl, changed |-> hit \/ r.changed]

RECURSIVE collection_objects_select(_, _, _, _, _)
RECURSIVE select_children(_, _, _, _, _, _, _)

\* frames: the nested calls the stack still holds.  st: "ok" the call
\* returned; "overflow" the nesting has used up the stack, and no frame
\* returns.
collection_objects_select(w, vl, collection, deselect, frames) ==
  IF frames = 0 THEN [vl |-> vl, changed |-> FALSE, st |-> "overflow"]
  ELSE IF COLLECTION_RESTRICT_SELECT \in w.flag[collection]
    THEN [vl |-> vl, changed |-> FALSE, st |-> "ok"]
  ELSE
    LET o == select_objects(vl, w.gobject[collection], 1, deselect)
        c == select_children(w, o.vl, collection, w.children[collection], 1,
                             deselect, frames)
    IN [vl |-> c.vl, changed |-> o.changed \/ c.changed, st |-> c.st]

\* The loop of collection_objects_select over collection->children, from
\* position i on: each turn calls collection_objects_select on `collection`,
\* the collection the loop runs in, not on the child chs[i].
select_children(w, vl, collection, chs, i, deselect, frames) ==
  IF i > Len(chs) THEN [vl |-> vl, changed |-> FALSE, st |-> "ok"]
  ELSE
    LET r == collection_objects_select(w, vl, collection, deselect, frames - 1)
    IN IF r.st # "ok" THEN r
       ELSE LET n == select_children(w, r.vl, collection, chs, i + 1, deselect,
                                     frames)
            IN [vl |-> n.vl, changed |-> r.changed \/ n.changed, st |-> n.st]

\* The view layer has no LayerCollection for the collection
\* (BKE_layer_collection_first_from_scene_collection returns NULL).
BKE_collection_objects_select(w, vl, collection, deselect) ==
  collection_objects_select(w, vl, collection, deselect, MaxFrames)

(* ------------------------------- calls -------------------------------- *)

\* What `last` holds: the call, its arguments (collections c1..c4, object ob,
\* boolean b, integer index), what it returned (ret, or the collection new),
\* and whether it called BKE_main_collection_sync.
Call(op, c1, c2, c3, c4, ob, b, ret, new, sync) ==
  [op |-> op, c1 |-> c1, c2 |-> c2, c3 |-> c3, c4 |-> c4, ob |-> ob, b |-> b,
   index |-> 0, ret |-> ret, new |-> new, sync |-> sync]

NoCall == Call("none", NULL, NULL, NULL, NULL, 0, FALSE, FALSE, NULL, FALSE)

SetWorld(w) ==
  /\ colls' = w.colls
  /\ children' = w.children
  /\ parents' = w.parents
  /\ gobject' = w.gobject
  /\ flag' = w.flag
  /\ object_cache' = w.object_cache
  /\ dup_group' = w.dup_group

\* The caller is between two calls, and no iteration is under way.
Quiet == ~hung /\ iter.kind = "none" /\ last = NoCall

\* A caller may make a call.
Idle == Quiet /\ nops < MaxOps

Returned(call) ==
  /\ last' = call
  /\ nops' = nops + 1
  /\ UNCHANGED <<hung, iter, threads, view_layer, inputs>>

\* A new scene: BKE_collection_master_add has made its master collection, and
\* no object instances a collection.
MasterOnly ==
  [colls |-> {Master},
   children |-> [c \in CollIds |-> <<>>],
   parents |-> [c \in CollIds |-> <<>>],
   gobject |-> [c \in CollIds |-> <<>>],
   flag |-> [c \in CollIds |-> IF c = Master THEN {COLLECTION_IS_MASTER} ELSE {}],
   object_cache |-> [c \in CollIds |-> <<>>],
   dup_group |-> [o \in Objects |-> NULL]]

Threads == 1 .. NumThreads

\* No thread has called BKE_collection_object_cache_get yet.  pc: where each
\* thread is; collection: its argument; holder: the thread that holds
\* cache_lock (0: none); fills: per collection, the threads that have run the
\* fill, in order; result: the list each thread has returned; locked: the
\* thread has taken cache_lock in its call; seen: how many Bases the list of
\* its collection held when the thread made its call.
NoThreads ==
  [pc |-> [t \in Threads |-> "idle"],
   collection |-> [t \in Threads |-> NULL],
   holder |-> 0,
   fills |-> [c \in CollIds |-> <<>>],
   result |-> [t \in Threads |-> <<>>],
   locked |-> [t \in Threads |-> FALSE],
   seen |-> [t \in Threads |-> 0]]

(* --------------------------- Mesh input sets -------------------------- *)

\* The OfxMeshInputSetStruct objects of the host.
InputSets == 1 .. 2

\* The names an input may be given.
InputNames == {"a", "b", "c"}

\* The name of an OfxMeshInputStruct that has not been given one.
NoName == "unset"

\* OfxMeshInputSetStruct(): num_inputs = 0 in every set.  set[s] is the array
\* s.inputs, as the names of its num_inputs inputs; op, dst, src and ret
\* record the last call; oob: the call read other.inputs at or beyond
\* other.num_inputs; st: "crash" when such a read has ended the process.
NoInputs ==
  [set |-> [s \in InputSets |-> <<>>],
   op |-> "none", dst |-> 0, src |-> 0, ret |-> 0, oob |-> FALSE, st |-> "ok"]

\* OfxMeshInputSetStruct::find
find(this, input) ==
  IF FindIndex(this, input) = 0 THEN -1 ELSE FindIndex(this, input) - 1

\* OfxMeshInputSetStruct::append: the old inputs are kept in place and
\* followed by `count` new ones.
append(this, count) == this \o [i \in 1 .. count |-> NoName]

\* OfxMeshInputSetStruct::ensure
ensure(this, input) ==
  IF find(this, input) # -1 THEN [inputs |-> this, ret |-> find(this, input)]
  ELSE LET a == append(this, 1)
       IN [inputs |-> [a EXCEPT ![Len(a)] = input], ret |-> Len(a) - 1]

\* OfxMeshInputSetStruct::deep_copy_from.  Its loop runs over the inputs of
\* `this` after the append and reads other.inputs[i] for each; beyond[i] is
\* what such a read finds at a position past the end of other.inputs.
deep_copy_from(this, other, beyond) ==
  LET a == append(this, Len(other))
  IN [inputs |-> [i \in 1 .. Len(a) |->
                    IF i <= Len(other) THEN other[i] ELSE beyond[i]],
      oob |-> Len(a) > Len(other)]

\* A view layer in which every object has a Base that can be selected and is
\* not selected.
BasesSelectable ==
  [o \in Objects |-> [base |-> TRUE, flag |-> {BASE_SELECTABLED}]]

\* The callers start in world w and make at most n calls.
StartIn(w, n) ==
  /\ colls = w.colls
  /\ children = w.children
  /\ parents = w.parents
  /\ gobject = w.gobject
  /\ flag = w.flag
  /\ object_cache = w.object_cache
  /\ dup_group = w.dup_group
  /\ last = NoCall
  /\ nops = MaxOps - n
  /\ hung = FALSE
  /\ iter = IterNone
  /\ threads = NoThreads
  /\ view_layer = BasesSelectable
  /\ inputs = NoInputs

Init == StartIn(MasterOnly, MaxOps)

\* The scene that two calls of BKE_collection_add under the master and two of
\* BKE_collection_object_add have built: the master has the children <<1, 2>>,
\* object 1 is in collection 1 and object 2 in collection 2.
TwoCollections ==
  LET a == collection_add(MasterOnly, Master, {})
      b == collection_add(a.w, Master, {})
      c == collection_object_add(b.w, a.new, 1)
      d == collection_object_add(c.w, b.new, 2)
  IN d.w

InitTwoCollections == StartIn(TwoCollections, MaxOpsInScene)

\* The scene that BKE_collection_add under the master, BKE_collection_add
\* without a parent and BKE_collection_object_add have built around an
\* instancer: collection 1 is a child of the master, collection 2 has no
\* parent, object 1 instances collection 2 and is a member of collection 1.
WithInstancer ==
  LET a == collection_add(MasterOnly, Master, {})
      b == collection_add(a.w, NULL, {})
      c == [b.w EXCEPT !.dup_group[1] = b.new]
      d == collection_object_add(c, a.new, 1)
  IN d.w

InitWithInstancer == StartIn(WithInstancer, MaxOpsInScene)

\* BKE_collection_add
CollectionAdd ==
  /\ Idle
  /\ \E collection_parent \in colls \cup {NULL}, restrict \in RestrictChoices :
    /\ CanAlloc(World)
    /\ LET r == collection_add(World, collection_parent, restrict)
       IN /\ SetWorld(r.w)
          /\ Returned(Call("add", NULL, collection_parent, NULL, NULL, 0, FALSE,
                           TRUE, r.new, TRUE))

\* BKE_collection_delete
CollectionDelete ==
  /\ Idle
  /\ \E collection \in colls, hierarchy \in BOOLEAN :
    /\ LET r == BKE_collection_delete(World, collection, hierarchy)
       IN /\ SetWorld(r.w)
          /\ last' = Call("delete", collection, NULL, NULL, NULL, 0, hierarchy,
                          r.ret, NULL, r.ret /\ r.st = "ok")
          /\ nops' = nops + 1
          /\ hung' = (r.st # "ok")
          /\ UNCHANGED <<iter, threads, view_layer, inputs>>

\* BKE_collection_copy
CollectionCopy ==
  /\ Idle
  /\ \E parent \in colls \cup {NULL}, collection \in colls :
    /\ COLLECTION_IS_MASTER \in flag[collection] \/ CanAlloc(World)
    /\ LET r == BKE_collection_copy(World, parent, collection)
       IN /\ SetWorld(r.w)
          /\ Returned(Call("copy", collection, parent, NULL, NULL, 0, FALSE,
                           r.new # NULL, r.new, r.sync))

\* BKE_collection_move.  A call that fails returns before it reads from_parent,
\* relative and relative_after, which are then left out of the record; and
\* relative_after is read only with a relative.
MoveInputs ==
  { <<f, r, a>> : f \in colls \cup {NULL}, r \in colls \cup {NULL}, a \in BOOLEAN }

CollectionMove ==
  /\ Idle
  /\ \E to_parent \in colls, collection \in colls :
       IF BKE_collection_move(World, to_parent, NULL, NULL, FALSE, collection).ret
         THEN \E inp \in { x \in MoveInputs : x[2] # NULL \/ ~x[3] } :
                LET r == BKE_collection_move(World, to_parent, inp[1], inp[2], inp[3],
                                             collection)
                IN /\ SetWorld(r.w)
                   /\ Returned(Call("move", collection, to_parent, inp[1], inp[2], 0,
                                    inp[3], r.ret, NULL, r.ret))
         ELSE LET r == BKE_collection_move(World, to_parent, NULL, NULL, FALSE,
                                           collection)
              IN /\ SetWorld(r.w)
                 /\ Returned(Call("move", collection, to_parent, NULL, NULL, 0,
                                  FALSE, r.ret, NULL, r.ret))

\* BKE_collection_child_add
ChildAdd ==
  /\ Idle
  /\ \E parent \in colls, child \in colls :
    /\ LET r == collection_child_add(World, parent, child, FALSE)
       IN /\ SetWorld(r.w)
          /\ Returned(Call("child_add", child, parent, NULL, NULL, 0, FALSE,
                           r.ret, NULL, r.ret))

\* BKE_collection_child_remove
ChildRemove ==
  /\ Idle
  /\ \E parent \in colls, child \in colls :
    /\ LET r == collection_child_remove(World, parent, child)
       IN /\ SetWorld(r.w)
          /\ Returned(Call("child_remove", child, parent, NULL, NULL, 0, FALSE,
                           r.ret, NULL, r.ret))

\* BKE_collection_object_add (collection and ob not NULL)
ObjectAdd ==
  /\ Idle
  /\ \E collection \in colls, ob \in Objects :
    /\ LET r == BKE_collection_object_add(World, collection, ob)
       IN /\ SetWorld(r.w)
          /\ Returned(Call("object_add", collection, NULL, NULL, NULL, ob, FALSE,
                           r.ret, NULL, r.sync))

\* BKE_collection_object_remove (collection and ob not NULL)
ObjectRemove ==
  /\ Idle
  /\ \E collection \in colls, ob \in Objects, free_us \in BOOLEAN :
    /\ LET r == BKE_collection_object_remove(World, collection, ob)
       IN /\ SetWorld(r.w)
          /\ Returned(Call("object_remove", collection, NULL, NULL, NULL, ob, free_us,
                           r.ret, NULL, r.sync))

\* BKE_collection_object_move (it returns nothing)
ObjectMove ==
  /\ Idle
  /\ \E collection_dst \in colls, collection_src \in colls \cup {NULL}, ob \in Objects :
    /\ LET r == BKE_collection_object_move(World, collection_dst, collection_src, ob)
       IN /\ SetWorld(r.w)
          /\ Returned(Call("object_move", collection_dst, collection_src, NULL, NULL,
                           ob, FALSE, TRUE, NULL, r.sync))

\* BKE_collection_object_cache_get
ObjectCacheGet ==
  /\ Idle
  /\ \E collection \in colls :
    /\ SetWorld(BKE_collection_object_cache_get(World, collection))
    /\ Returned(Call("cache_get", collection, NULL, NULL, NULL, 0, FALSE,
                     TRUE, NULL, FALSE))

\* BKE_collection_object_cache_free called on its own.
ObjectCacheFree ==
  /\ Idle
  /\ \E collection \in colls :
    /\ SetWorld(BKE_collection_object_cache_free(World, collection))
    /\ Returned(Call("cache_free", collection, NULL, NULL, NULL, 0, FALSE,
                     TRUE, NULL, FALSE))

\* An object that is in no collection yet is made an instance of a collection
\* of main (ob->dup_group is written by the object's owner, not by this file).
ObjectInstance ==
  /\ Idle
  /\ \E ob \in Objects, collection \in colls \ {Master} :
    /\ dup_group[ob] = NULL
    /\ \A c \in CollIds : ob \notin Range(gobject[c])
    /\ dup_group' = [dup_group EXCEPT ![ob] = collection]
    /\ UNCHANGED <<colls, children, parents, gobject, flag, object_cache>>
    /\ Returned(Call("instance", collection, NULL, NULL, NULL, ob, FALSE,
                     TRUE, NULL, FALSE))

\* BKE_collection_objects_select
ObjectsSelect ==
  /\ Idle
  /\ \E collection \in colls, deselect \in BOOLEAN :
       LET r == BKE_collection_objects_select(World, view_layer, collection, deselect)
       IN /\ view_layer' = r.vl
          /\ last' = Call("select", collection, NULL, NULL, NULL, 0, deselect,
                          r.st = "ok" /\ r.changed, NULL, FALSE)
          /\ nops' = nops + 1
          /\ hung' = (r.st # "ok")
          /\ UNCHANGED <<graph, iter, threads, inputs>>

\* BKE_collection_find_cycle called on its own: it reads and changes nothing.
FindCycle ==
  /\ Idle
  /\ \E new_ancestor \in colls, collection \in colls :
       last' = Call("find_cycle", collection, new_ancestor, NULL, NULL, 0, FALSE,
                    BKE_collection_find_cycle(World, new_ancestor, collection),
                    NULL, FALSE)
  /\ UNCHANGED <<graph, nops, hung, iter, threads, view_layer, inputs>>

\* BKE_collection_from_index: it reads the graph and changes nothing.
FromIndex ==
  /\ Idle
  /\ \E index \in -1 .. MaxIndex :
       LET r == BKE_collection_from_index(World, index)
       IN last' = [Call("from_index", NULL, NULL, NULL, NULL, 0, FALSE,
                        r # NULL, r, FALSE) EXCEPT !.index = index]
  /\ UNCHANGED <<graph, nops, hung, iter, threads, view_layer, inputs>>

\* FOREACH_SCENE_COLLECTION_BEGIN
CollectionsIterBegin ==
  /\ Quiet
  /\ LET it == BKE_scene_collections_iterator_begin(
                 [IterNone EXCEPT !.kind = "collections"], World)
     IN iter' = Yield([it EXCEPT !.valid = it.cvalid, !.current = it.ccurrent])
  /\ UNCHANGED <<graph, last, nops, hung, threads, view_layer, inputs>>

\* One more turn of the FOREACH_SCENE_COLLECTION loop.
CollectionsIterNext ==
  /\ iter.kind = "collections" /\ iter.valid
  /\ LET it == BKE_scene_collections_iterator_next(iter)
     IN iter' = Yield([it EXCEPT !.valid = it.cvalid, !.current = it.ccurrent])
  /\ UNCHANGED <<graph, last, nops, hung, threads, view_layer, inputs>>

\* FOREACH_SCENE_OBJECT_BEGIN
ObjectsIterBegin ==
  /\ Quiet
  /\ iter' = Yield(BKE_scene_objects_iterator_begin(World))
  /\ UNCHANGED <<graph, last, nops, hung, threads, view_layer, inputs>>

\* One more turn of the FOREACH_SCENE_OBJECT loop.
ObjectsIterNext ==
  /\ iter.kind = "objects" /\ iter.valid
  /\ iter' = Yield(BKE_scene_objects_iterator_next(iter, World))
  /\ UNCHANGED <<graph, last, nops, hung, threads, view_layer, inputs>>

\* BKE_scene_collections_iterator_end / BKE_scene_objects_iterator_end
IterEnd ==
  /\ iter.kind # "none" /\ ~iter.valid
  /\ iter' = IterNone
  /\ UNCHANGED <<graph, last, nops, hung, threads, view_layer, inputs>>

\* The call has returned and its caller goes on.
Return ==
  /\ last # NoCall /\ ~hung
  /\ last' = NoCall
  /\ UNCHANGED <<graph, nops, hung, iter, threads, view_layer, inputs>>

Next ==
  \/ CollectionAdd
  \/ CollectionDelete
  \/ CollectionCopy
  \/ CollectionMove
  \/ ChildAdd
  \/ ChildRemove
  \/ ObjectAdd
  \/ ObjectRemove
  \/ ObjectMove
  \/ ObjectCacheGet
  \/ ObjectCacheFree
  \/ ObjectInstance
  \/ FindCycle
  \/ FromIndex
  \/ CollectionsIterBegin
  \/ CollectionsIterNext
  \/ ObjectsIterBegin
  \/ ObjectsIterNext
  \/ IterEnd
  \/ Return

Spec == Init /\ [][Next]_vars

\* The same callers, starting in the scene TwoCollections.
SpecTwoCollections == InitTwoCollections /\ [][Next]_vars

\* The same callers, starting in the scene WithInstancer.
SpecWithInstancer == InitWithInstancer /\ [][Next]_vars

\* OfxMeshInputSetStruct::ensure
InputEnsure ==
  /\ inputs.st = "ok"
  /\ \E s \in InputSets, input \in InputNames :
       /\ find(inputs.set[s], input) # -1 \/ Len(inputs.set[s]) < MaxInputs
       /\ LET r == ensure(inputs.set[s], input)
          IN inputs' = [set |-> [inputs.set EXCEPT ![s] = r.inputs],
                        op |-> "ensure", dst |-> s, src |-> 0, ret |-> r.ret,
                        oob |-> FALSE, st |-> "ok"]
  /\ UNCHANGED <<graph, last, nops, hung, iter, threads, view_layer>>

\* dst.deep_copy_from(src).  A read past the end of src.inputs finds any
\* name, or ends the process.
InputDeepCopy ==
  /\ inputs.st = "ok"
  /\ \E dst \in InputSets, src \in InputSets, crash \in BOOLEAN,
        beyond \in [1 .. MaxInputs -> InputNames] :
       /\ dst # src
       /\ Len(inputs.set[dst]) + Len(inputs.set[src]) <= MaxInputs
       /\ LET r == deep_copy_from(inputs.set[dst], inputs.set[src], beyond)
          IN inputs' = [set |-> [inputs.set EXCEPT ![dst] = r.inputs],
                        op |-> "deep_copy", dst |-> dst, src |-> src, ret |-> 0,
                        oob |-> r.oob,
                        st |-> IF r.oob /\ crash THEN "crash" ELSE "ok"]
  /\ UNCHANGED <<graph, last, nops, hung, iter, threads, view_layer>>

NextInputs ==
  \/ InputEnsure
  \/ InputDeepCopy

\* A host with its input sets just constructed.
InitInputs == StartIn(MasterOnly, 0)

SpecInputs == InitInputs /\ [][NextInputs]_vars

\* What BKE_view_layer_base_find may find for an object: no Base, or a Base
\* that cannot be selected, can be selected, or is selected.
BaseChoices ==
  { [base |-> FALSE, flag |-> {}],
    [base |-> TRUE, flag |-> {}],
    [base |-> TRUE, flag |-> {BASE_SELECTABLED}],
    [base |-> TRUE, flag |-> {BASE_SELECTABLED, BASE_SELECTED}] }

\* The scene TwoCollections under any view layer.
InitSelect ==
  /\ colls = TwoCollections.colls
  /\ children = TwoCollections.children
  /\ parents = TwoCollections.parents
  /\ gobject = TwoCollections.gobject
  /\ flag = TwoCollections.flag
  /\ object_cache = TwoCollections.object_cache
  /\ dup_group = TwoCollections.dup_group
  /\ last = NoCall
  /\ nops = MaxOps - MaxOpsInScene
  /\ hung = FALSE
  /\ iter = IterNone
  /\ threads = NoThreads
  /\ view_layer \in [Objects -> BaseChoices]
  /\ inputs = NoInputs

\* Callers that build the graph and select or deselect in it.
NextSelect ==
  \/ CollectionAdd
  \/ ChildAdd
  \/ ChildRemove
  \/ ObjectAdd
  \/ ObjectsSelect
  \/ Return

SpecSelect == InitSelect /\ [][NextSelect]_vars

(* ------------- Threads in BKE_collection_object_cache_get ------------- *)

\* A thread steps from pc `from` to pc `to`.
Goto(t, from, to) ==
  /\ threads.pc[t] = from
  /\ threads' = [threads EXCEPT !.pc[t] = to]

ThreadFrame == UNCHANGED <<colls, children, parents, gobject, dup_group,
                           last, nops, hung, iter, view_layer, inputs>>

\* BKE_collection_object_cache_get without the second test: whoever gets the
\* lock fills.
recheck_left_out(w, collection) == TRUE

\* The test of COLLECTION_HAS_OBJECT_CACHE made under cache_lock.
cache_get_recheck(w, collection) ==
  COLLECTION_HAS_OBJECT_CACHE \notin w.flag[collection]

\* A thread calls BKE_collection_object_cache_get(collection).
GetCall(t) ==
  /\ threads.pc[t] = "idle"
  /\ \E collection \in colls :
       threads' = [threads EXCEPT !.pc[t] = "check", !.collection[t] = collection,
                                  !.seen[t] = Len(object_cache[collection])]
  /\ ThreadFrame /\ UNCHANGED <<flag, object_cache>>

\* The first test of the flag, made without the lock.  It races with the
\* write another thread makes under the lock, so a thread may still read the
\* flag as clear after it was set.
GetCheck(t) ==
  /\ threads.pc[t] = "check"
  /\ \/ /\ COLLECTION_HAS_OBJECT_CACHE \in flag[threads.collection[t]]
        /\ Goto(t, "check", "return")
     \/ Goto(t, "check", "lock")
  /\ ThreadFrame /\ UNCHANGED <<flag, object_cache>>

\* BLI_mutex_lock(&cache_lock)
GetLock(t) ==
  /\ threads.pc[t] = "lock"
  /\ threads.holder = 0
  /\ threads' = [threads EXCEPT !.pc[t] = "recheck", !.holder = t,
                                !.locked[t] = TRUE]
  /\ ThreadFrame /\ UNCHANGED <<flag, object_cache>>

\* The second test of the flag, under the lock.
GetRecheck(t) ==
  /\ threads.pc[t] = "recheck"
  /\ IF cache_get_recheck(World, threads.collection[t])
       THEN threads' = [threads EXCEPT
                          !.pc[t] = "fill",
                          !.fills[threads.collection[t]] = Append(@, t)]
       ELSE threads' = [threads EXCEPT !.pc[t] = "unlock"]
  /\ ThreadFrame /\ UNCHANGED <<flag, object_cache>>

\* collection_object_cache_fill adds the next Base to collection->object_cache
\* (BLI_addtail), or has no Base left to add.
GetFill(t) ==
  /\ threads.pc[t] = "fill"
  /\ LET c == threads.collection[t]
         full == collection_object_cache_fill(World, object_cache[c], c, {})
     IN IF full = object_cache[c]
          THEN /\ threads' = [threads EXCEPT !.pc[t] = "flag"]
               /\ UNCHANGED object_cache
          ELSE /\ object_cache' =
                    [object_cache EXCEPT ![c] = SubSeq(full, 1, Len(@) + 1)]
               /\ UNCHANGED threads
  /\ ThreadFrame /\ UNCHANGED flag

\* collection->flag |= COLLECTION_HAS_OBJECT_CACHE
GetSetFlag(t) ==
  /\ Goto(t, "flag", "unlock")
  /\ flag' = [flag EXCEPT ![threads.collection[t]] =
                             @ \cup {COLLECTION_HAS_OBJECT_CACHE}]
  /\ ThreadFrame /\ UNCHANGED object_cache

\* BLI_mutex_unlock(&cache_lock)
GetUnlock(t) ==
  /\ threads.pc[t] = "unlock"
  /\ threads' = [threads EXCEPT !.pc[t] = "return", !.holder = 0]
  /\ ThreadFrame /\ UNCHANGED <<flag, object_cache>>

\* The list a thread reads without having taken cache_lock.  Nothing orders
\* its read of the flag and its read of the list with the writes the filling
\* thread makes under the lock, so the list it reads is any of those the
\* collection has held since the thread made its call.
unlocked_read(t) ==
  { SubSeq(object_cache[threads.collection[t]], 1, k) :
      k \in threads.seen[t] .. Len(object_cache[threads.collection[t]]) }

\* return collection->object_cache
GetReturn(t) ==
  /\ threads.pc[t] = "return"
  /\ \E lb \in IF threads.locked[t]
                 THEN { object_cache[threads.collection[t]] }
                 ELSE unlocked_read(t) :
       threads' = [threads EXCEPT !.pc[t] = "done", !.result[t] = lb]
  /\ ThreadFrame /\ UNCHANGED <<flag, object_cache>>

NextThreads ==
  \E t \in Threads :
    \/ GetCall(t)
    \/ GetCheck(t)
    \/ GetLock(t)
    \/ GetRecheck(t)
    \/ GetFill(t)
    \/ GetSetFlag(t)
    \/ GetUnlock(t)
    \/ GetReturn(t)

\* Threads that read the scene TwoCollections, whose caches are all stale,
\* while no caller changes it.
InitThreads == StartIn(TwoCollections, 0)

SpecThreads == InitThreads /\ [][NextThreads]_vars

(* ------------------------- graph vocabulary --------------------------- *)

\* p has a child-edge to c.
ChildEdge(p, c) == c \in Range(children[p])

\* The collections reachable from those of S by zero or more child-edges.
RECURSIVE ReachDown(_)
ReachDown(S) ==
  LET T == S \cup UNION { Range(children[c]) \ {NULL} : c \in S }
  IN IF T = S THEN S ELSE ReachDown(T)

\* The collections reachable from c by one or more child-edges.
Descendants(c) == ReachDown(Range(children[c]) \ {NULL})

\* Number of positions of s that hold x.
Count(s, x) == Cardinality({ i \in DOMAIN s : s[i] = x })

\* No list of children holds a NULL pointer.
NoNullChild == \A c \in CollIds : NULL \notin Range(children[c])

(* ------------------------------ claims -------------------------------- *)

\* C1: after any sequence of completed structural operations from a
\* master-only graph the child relation is acyclic: no collection is
\* reachable from itself by one or more child-edges.
C1_Acyclic == \A c \in CollIds : c \notin Descendants(c)

\* A move has completed in a graph where a collection has two parents and a
\* chain of two child-edges exists.
C1_Witness ==
  /\ last.op = "move" /\ last.ret
  /\ \E a, b, c \in colls :
       /\ ChildEdge(a, b) /\ ChildEdge(b, c) /\ ChildEdge(a, c)

\* C2: the child lists and the parent lists mirror each other and hold no
\* duplicates.
C2_Mirror ==
  \A p, c \in CollIds :
    /\ Count(children[p], c) <= 1
    /\ Count(parents[c], p) <= 1
    /\ (c \in Range(children[p]) <=> p \in Range(parents[c]))

\* C3: add_child(P, C) returns false and changes nothing whenever C is P or
\* C is an ancestor of P (P is reachable from C through child-edges).
C3_AddChildRefusesAncestor ==
  [][ ( /\ last'.op = "child_add"
        /\ (last'.c1 = last'.c2 \/ last'.c2 \in Descendants(last'.c1)) )
      => (~last'.ret /\ UNCHANGED graph) ]_vars

\* add_child(P, C) has just been refused where P is a grandchild of C.
C3_Witness ==
  /\ last.op = "child_add" /\ ~last.ret
  /\ \E mid \in colls : ChildEdge(last.c1, mid) /\ ChildEdge(mid, last.c2)

SceneObjects == UNION { Range(gobject[c]) : c \in ReachDown({Master}) }

\* C5: the all-objects iterator never yields the same object twice.
C5_ObjectsIterNoDuplicate ==
  iter.kind = "objects" =>
    \A i, j \in DOMAIN iter.out : iter.out[i] = iter.out[j] => i = j

\* C6: when the all-objects iterator becomes invalid it has yielded every
\* object of the scene.
C6_ObjectsIterComplete ==
  (iter.kind = "objects" /\ ~iter.valid) => SceneObjects \subseteq Range(iter.out)

\* Number of paths of child-edges from the master collection to c.
RECURSIVE NumPaths(_)
RECURSIVE SumPaths(_)
SumPaths(S) ==
  IF S = {} THEN 0
  ELSE LET p == CHOOSE x \in S : TRUE IN NumPaths(p) + SumPaths(S \ {p})
NumPaths(c) ==
  (IF c = Master THEN 1 ELSE 0) + SumPaths({ p \in CollIds : ChildEdge(p, c) })

\* C7 as stated: the all-collections iterator yields each collection
\* reachable from the master exactly once.
C7_CollectionsIterOnce ==
  (iter.kind = "collections" /\ ~iter.valid) =>
    \A c \in CollIds :
      Count(iter.out, c) = (IF c \in ReachDown({Master}) THEN 1 ELSE 0)

\* C7 amended: the all-collections iterator yields a collection once for every
\* path of child-edges that leads from the master to it: every reachable
\* collection at least once, the master first, no other collection.
C7_CollectionsIterPerPath ==
  (iter.kind = "collections" /\ ~iter.valid) =>
    /\ \A c \in CollIds : Count(iter.out, c) = NumPaths(c)
    /\ iter.out[1] = Master

\* The iteration is over and a collection with two parents was yielded twice.
C7_Witness ==
  /\ iter.kind = "collections" /\ ~iter.valid
  /\ \E c \in colls : Len(parents[c]) = 2 /\ Count(iter.out, c) = 2

\* C8: the master collection has no parent and is no collection's child.
C8_MasterNoParent ==
  /\ parents[Master] = <<>>
  /\ \A p \in CollIds : ~ChildEdge(p, Master)

\* C9: delete, copy and move of the master collection fail and change nothing.
C9_MasterImmutable ==
  [][ (last'.op \in {"delete", "copy", "move"} /\ last'.c1 = Master)
      => (~last'.ret /\ last'.new = NULL /\ UNCHANGED graph) ]_vars

\* A move of the master under a collection that is not in the scene has just
\* been refused.
C9_Witness ==
  /\ last.op = "move" /\ last.c1 = Master /\ ~last.ret
  /\ last.c2 # Master /\ last.c2 \notin ReachDown({Master})

\* C10: delete(X, hierarchy = false) leaves every child collection and every
\* member object of X in every former parent of X.
C10_DeleteRelinks ==
  [][ (last'.op = "delete" /\ ~last'.b /\ last'.c1 # Master)
      => \A p \in CollIds :
           ChildEdge(p, last'.c1) =>
             /\ \A c \in Range(children[last'.c1]) : c \in Range(children'[p])
             /\ \A ob \in Range(gobject[last'.c1]) : ob \in Range(gobject'[p]) ]_vars

\* C11: add_member(collection, object) returns false and adds no member-edge
\* whenever the object instances a collection D that is `collection` itself or
\* an ancestor of it.
C11_AddMemberRefusesInstancedAncestor ==
  [][ ( /\ last'.op = "object_add"
        /\ dup_group[last'.ob] # NULL
        /\ \/ dup_group[last'.ob] = last'.c1
           \/ last'.c1 \in Descendants(dup_group[last'.ob]) )
      => (~last'.ret /\ UNCHANGED gobject) ]_vars

\* The collections reached from c by walking one or more parent
\* back-references.
RECURSIVE ReachUp(_)
ReachUp(S) ==
  LET T == S \cup UNION { Range(parents[c]) : c \in S }
  IN IF T = S THEN S ELSE ReachUp(T)

Ancestors(c) == ReachUp(Range(parents[c]))

\* C12 as stated: would_create_cycle(candidate_ancestor, collection) is true
\* iff collection equals candidate_ancestor or candidate_ancestor is reached
\* from collection by walking parent back-references.
C12_FindCycleFromCollection ==
  last.op = "find_cycle" =>
    (last.ret <=> (last.c1 = last.c2 \/ last.c2 \in Ancestors(last.c1)))

\* C12 amended: would_create_cycle(candidate_ancestor, collection) is true iff
\* collection equals candidate_ancestor or collection is reached from
\* candidate_ancestor by walking parent back-references.
C12_FindCycleFromAncestor ==
  last.op = "find_cycle" =>
    (last.ret <=> (last.c1 = last.c2 \/ last.c1 \in Ancestors(last.c2)))

\* The check has answered true for a collection two parent links above the
\* candidate, and the graph is acyclic.
C12_Witness ==
  /\ last.op = "find_cycle" /\ last.ret /\ last.c1 # last.c2
  /\ \E mid \in colls \ {last.c1, last.c2} :
       /\ mid \in Range(parents[last.c2])
       /\ last.c1 \in Range(parents[mid])
  /\ \A c \in CollIds : c \notin Descendants(c)

\* The objects that are direct members of c or of a collection reachable from
\* c through child-edges.
MembersBelow(c) == UNION { Range(gobject[d]) : d \in ReachDown({c}) }

\* The objects of a list of Base, in order.
CacheObjects(lb) == [k \in DOMAIN lb |-> lb[k].object]

\* C13: after remove_member(Col, Obj) has succeeded, the next
\* get_flattened_objects(Col) holds Obj once if Obj is still a direct member
\* of a collection reachable from Col, and not at all otherwise.
C13_RemovedMemberInFlattened ==
  (last.op = "object_remove" /\ last.ret) =>
    LET lb == BKE_collection_object_cache_get(World, last.c1).object_cache[last.c1]
    IN Count(CacheObjects(lb), last.ob)
         = (IF last.ob \in MembersBelow(last.c1) THEN 1 ELSE 0)

\* An object has been removed from a collection and is still a member of a
\* collection below it.
C13_Witness ==
  /\ last.op = "object_remove" /\ last.ret
  /\ last.ob \notin Range(gobject[last.c1])
  /\ last.ob \in MembersBelow(last.c1)

\* C14: get_flattened_objects is idempotent: a second call on the same
\* collection, with no mutation in between, returns the same list and leaves
\* the stored cache and every flag as the first call left them.
C14_CacheGetIdempotent ==
  last.op = "cache_get" =>
    LET w2 == BKE_collection_object_cache_get(World, last.c1)
    IN /\ w2.object_cache[last.c1] = object_cache[last.c1]
       /\ w2 = World

\* get_flattened_objects has returned a list of two objects for a collection
\* that has child collections.
C14_Witness ==
  /\ last.op = "cache_get"
  /\ Len(object_cache[last.c1]) = 2
  /\ children[last.c1] # <<>>

\* The members met by a depth-first walk from c, in order, every occurrence
\* kept: the members of c, then the walk of each child in child order.
RECURSIVE DfsMembers(_)
RECURSIVE DfsMembersOfChildren(_, _)
DfsMembers(c) == gobject[c] \o DfsMembersOfChildren(children[c], 1)
DfsMembersOfChildren(chs, i) ==
  IF i > Len(chs) THEN <<>>
  ELSE DfsMembers(chs[i]) \o DfsMembersOfChildren(chs, i + 1)

\* s with only the first occurrence of each element kept.
RECURSIVE FirstOccurrences(_)
FirstOccurrences(s) ==
  IF s = <<>> THEN <<>>
  ELSE LET init == FirstOccurrences(SubSeq(s, 1, Len(s) - 1))
           x == s[Len(s)]
       IN IF x \in Range(init) THEN init ELSE Append(init, x)

\* C15: the flattened list get_flattened_objects has filled holds one entry
\* for each distinct object that is a member of the collection or of a
\* collection below it, no other entry, in depth-first order.
C15_FlattenedIsDepthFirst ==
  last.op = "cache_get" =>
    LET objs == CacheObjects(object_cache[last.c1])
    IN /\ Range(objs) = MembersBelow(last.c1)
       /\ \A j, k \in DOMAIN objs : objs[j] = objs[k] => j = k
       /\ objs = FirstOccurrences(DfsMembers(last.c1))

\* A list of two objects has been filled for a collection below which one of
\* the objects is a member of two collections.
C15_Witness ==
  /\ last.op = "cache_get"
  /\ Len(object_cache[last.c1]) = 2
  /\ \E ob \in Objects, c, d \in ReachDown({last.c1}) :
       c # d /\ ob \in Range(gobject[c]) /\ ob \in Range(gobject[d])

\* The restriction flags of the collections on the first path, in depth-first
\* order, that leads from c down to a collection with the member ob (both
\* ends included).  ob is a member of c or of a collection below c.
RECURSIVE FirstPathRestrict(_, _)
FirstPathRestrict(c, ob) ==
  (flag[c] \cap {COLLECTION_RESTRICT_VIEW, COLLECTION_RESTRICT_SELECT,
                 COLLECTION_RESTRICT_RENDER})
  \cup (IF ob \in Range(gobject[c]) THEN {}
        ELSE LET k == CHOOSE k \in DOMAIN children[c] :
                        /\ ob \in MembersBelow(children[c][k])
                        /\ \A j \in 1 .. (k - 1) : ob \notin MembersBelow(children[c][j])
             IN FirstPathRestrict(children[c][k], ob))

\* C16: an entry of a filled flattened list is visible iff no collection on
\* the path from the queried collection down to the member has restrict-view,
\* selectable iff none has restrict-view or restrict-select, and
\* render-visible iff none has restrict-render.
C16_FlagsFollowPath ==
  last.op = "cache_get" =>
    \A k \in DOMAIN object_cache[last.c1] :
      LET base == object_cache[last.c1][k]
          r == FirstPathRestrict(last.c1, base.object)
      IN /\ BASE_VISIBLED \in base.flag <=> COLLECTION_RESTRICT_VIEW \notin r
         /\ BASE_VISIBLE_VIEWPORT \in base.flag <=> COLLECTION_RESTRICT_VIEW \notin r
         /\ BASE_SELECTABLED \in base.flag
              <=> (/\ COLLECTION_RESTRICT_VIEW \notin r
                   /\ COLLECTION_RESTRICT_SELECT \notin r)
         /\ BASE_VISIBLE_RENDER \in base.flag <=> COLLECTION_RESTRICT_RENDER \notin r

\* A list has been filled with an entry that is not visible although the
\* collection the object is a member of has no restriction of its own.
C16_Witness ==
  /\ last.op = "cache_get"
  /\ \E k \in DOMAIN object_cache[last.c1] :
       /\ BASE_VISIBLED \notin object_cache[last.c1][k].flag
       /\ \A d \in ReachDown({last.c1}) :
            object_cache[last.c1][k].object \in Range(gobject[d])
              => flag[d] \cap {COLLECTION_RESTRICT_VIEW, COLLECTION_RESTRICT_SELECT,
                               COLLECTION_RESTRICT_RENDER} = {}

\* The depth-first pre-order walk from c: c, then the walk of each child in
\* child order.
RECURSIVE PreOrder(_)
RECURSIVE PreOrderOfChildren(_, _)
PreOrder(c) == <<c>> \o PreOrderOfChildren(children[c], 1)
PreOrderOfChildren(chs, i) ==
  IF i > Len(chs) THEN <<>>
  ELSE PreOrder(chs[i]) \o PreOrderOfChildren(chs, i + 1)

\* C17: by_index(n) returns the n-th node, counting from 0, of the pre-order
\* walk from the master collection, and NULL when n is negative or not
\* smaller than the number of visits of the walk.
C17_FromIndexIsPreOrder ==
  last.op = "from_index" =>
    LET walk == PreOrder(Master)
    IN last.new = (IF last.index >= 0 /\ last.index < Len(walk)
                     THEN walk[last.index + 1] ELSE NULL)

\* by_index(3) has returned B where the master has the children A, B and A
\* has the child C.
C17_Witness ==
  /\ last.op = "from_index" /\ last.index = 3
  /\ Len(children[Master]) = 2
  /\ Len(children[children[Master][1]]) = 1
  /\ children[children[children[Master][1]][1]] = <<>>
  /\ last.new = children[Master][2]
  /\ last.new # children[children[Master][1]][1]

\* C18: when add_child, remove_child, add_member, remove_member or move
\* returns false, every child list, parent list, member list, cache and flag
\* is what it was before the call.
C18_FailureIsNoOp ==
  [][ ( /\ last'.op \in {"child_add", "child_remove", "object_add",
                         "object_remove", "move"}
        /\ ~last'.ret )
      => UNCHANGED graph ]_vars

\* remove_member has just failed on a collection that keeps a filled,
\* non-empty cache.
C18_Witness ==
  /\ last.op = "object_remove" /\ ~last.ret
  /\ COLLECTION_HAS_OBJECT_CACHE \in flag[last.c1]
  /\ object_cache[last.c1] # <<>>

\* C19: with threads calling get_flattened_objects at the same time and no
\* mutator running, the fill of a collection whose cache was stale is run by
\* at most one thread.
C19_OneFillPerStaleCache ==
  \A c \in CollIds : Len(threads.fills[c]) <= 1

\* A thread holds the lock after its second test found the flag set by
\* another thread, which has filled the same collection; a third thread
\* called for that collection too.
C19_Witness ==
  \E t1, t2, t3 \in Threads :
    /\ t1 # t2 /\ t2 # t3 /\ t1 # t3
    /\ threads.pc[t2] = "unlock" /\ threads.holder = t2
    /\ threads.collection[t1] = threads.collection[t2]
    /\ threads.collection[t3] = threads.collection[t2]
    /\ threads.fills[threads.collection[t2]] = <<t1>>
    /\ Len(object_cache[threads.collection[t2]]) = 2

\* The public operations that edit the graph.
StructuralOps ==
  {"add", "delete", "copy", "move", "child_add", "child_remove",
   "object_add", "object_remove", "object_move"}

\* c is the master collection or has it above it through parent links.
InScene(c) == Master \in ReachUp({c})

\* C20 as stated: every structural operation that changes the graph and
\* returns has requested the sync after the change, wherever the collection
\* it edits is.
C20_SyncAfterEveryChange ==
  [][ (last'.op \in StructuralOps /\ ~hung' /\ ~(UNCHANGED graph))
      => last'.sync ]_vars

\* C20 amended: create, delete, copy, move, add_child and remove_child that
\* change the graph request the sync; add object and remove object request it
\* iff the collection is in the scene; object move with a source collection
\* requests it after its last change iff the collection of that change is in
\* the scene, and always when it has no source collection.
C20_SyncUnlessOutOfScene ==
  [][ (last'.op \in StructuralOps /\ ~hung' /\ ~(UNCHANGED graph))
      => IF last'.op \in {"object_add", "object_remove"}
           THEN last'.sync <=> InScene(last'.c1)
         ELSE IF last'.op = "object_move" /\ last'.c2 # NULL
           THEN last'.sync
                  <=> InScene(IF last'.ob \in Range(gobject[last'.c2])
                                THEN last'.c2 ELSE last'.c1)
         ELSE last'.sync ]_vars

\* An object has just been added to a collection that is not in the scene,
\* and no sync was requested.
C20_Witness ==
  /\ last.op = "object_add" /\ last.ret /\ ~last.sync
  /\ ~InScene(last.c1)
  /\ last.ob \in Range(gobject[last.c1])

\* C21: no object instances a collection D while being a direct member of D
\* or of a collection reachable from D through child-edges.
C21_NoCyclicInstancing ==
  \A ob \in Objects :
    dup_group[ob] # NULL =>
      \A c \in {dup_group[ob]} \cup Descendants(dup_group[ob]) :
        ob \notin Range(gobject[c])

\* The collections from which c is reachable through one or more child-edges.
AncestorsByChildEdge(c) == { a \in CollIds : c \in Descendants(a) }

\* C22: after invalidate(c), c and every collection from which c is reachable
\* through child-edges have the validity flag clear and an empty cache, and
\* every other collection keeps its cache and its validity flag.
C22_InvalidateIsUpwardClosure ==
  [][ last'.op = "cache_free"
      => \A c \in CollIds :
           IF c \in {last'.c1} \cup AncestorsByChildEdge(last'.c1)
             THEN /\ COLLECTION_HAS_OBJECT_CACHE \notin flag'[c]
                  /\ object_cache'[c] = <<>>
             ELSE /\ (COLLECTION_HAS_OBJECT_CACHE \in flag'[c])
                       <=> (COLLECTION_HAS_OBJECT_CACHE \in flag[c])
                  /\ object_cache'[c] = object_cache[c] ]_vars

\* The same with the collections above c taken through parent back-references,
\* which is what collection_object_cache_free walks.
C22_InvalidateFollowsParentLinks ==
  [][ last'.op = "cache_free"
      => \A c \in CollIds :
           IF c \in {last'.c1} \cup Ancestors(last'.c1)
             THEN /\ COLLECTION_HAS_OBJECT_CACHE \notin flag'[c]
                  /\ object_cache'[c] = <<>>
             ELSE /\ flag'[c] = flag[c]
                  /\ object_cache'[c] = object_cache[c] ]_vars

\* The entries of s other than x, in the order of s.
Without(s, x) == LET Other(y) == y # x IN SelectSeq(s, Other)

\* to_parent's child list after a move holds c once, c has left from_parent,
\* c is next to `relative` on the side asked for, and the other children
\* keep their order.
MovePlaced(c, to_parent, from_parent, relative, relative_after) ==
  /\ Count(children'[to_parent], c) = 1
  /\ (from_parent \notin {NULL, to_parent}) => c \notin Range(children'[from_parent])
  /\ (relative \notin {NULL, c} /\ relative \in Range(children'[to_parent]))
       => LET i == FindIndex(children'[to_parent], c)
              r == FindIndex(children'[to_parent], relative)
          IN IF relative_after THEN i = r + 1 ELSE i = r - 1
  /\ Without(children'[to_parent], c) = Without(children[to_parent], c)

\* C23: a move that returns true leaves c exactly once in to_parent's child
\* list, out of from_parent when that is another collection, immediately
\* after or before `relative` when `relative` is a child of to_parent, and
\* the other children of to_parent in their order; for every `relative`,
\* c itself included.
C23_MovePlacesCollection ==
  [][ (last'.op = "move" /\ last'.ret)
      => MovePlaced(last'.c1, last'.c2, last'.c3, last'.c4, last'.b) ]_vars

\* The same for every `relative` other than c.
C23_MovePlacesUnlessRelativeIsSelf ==
  [][ (last'.op = "move" /\ last'.ret /\ last'.c4 # last'.c1)
      => MovePlaced(last'.c1, last'.c2, last'.c3, last'.c4, last'.b) ]_vars

\* After the step, collection d is gone: it is not in main, no collection
\* holds a child-edge or a parent back-reference to it, and it has no member.
Gone(d) ==
  /\ d \notin colls'
  /\ \A c \in CollIds : d \notin Range(children'[c]) /\ d \notin Range(parents'[c])
  /\ gobject'[d] = <<>>

\* C24: delete(X, hierarchy = true) on a non-master X returns true, and
\* afterwards X and every collection that was reachable from X through
\* child-edges are gone from the graph, with no member left in them.
C24_DeleteHierarchyRemovesSubtree ==
  [][ ( /\ last'.op = "delete" /\ last'.b
        /\ COLLECTION_IS_MASTER \notin flag[last'.c1] )
      => /\ ~hung' /\ last'.ret
         /\ \A d \in {last'.c1} \cup Descendants(last'.c1) : Gone(d) ]_vars

\* The same for an X that does not have the master collection below it.
C24_DeleteHierarchyWithoutMasterBelow ==
  [][ ( /\ last'.op = "delete" /\ last'.b
        /\ COLLECTION_IS_MASTER \notin flag[last'.c1]
        /\ Master \notin Descendants(last'.c1) )
      => /\ ~hung' /\ last'.ret
         /\ \A d \in {last'.c1} \cup Descendants(last'.c1) : Gone(d) ]_vars

\* C25: the shallow copy of a non-master S under its parent P returns a new
\* collection N, distinct from S, with the direct child list and the direct
\* member list of S in the same order; no other collection appears; N is
\* immediately after S in P's child list and P's other children keep their
\* order.
C25_ShallowCopy ==
  [][ ( /\ last'.op = "copy"
        /\ COLLECTION_IS_MASTER \notin flag[last'.c1]
        /\ last'.c2 # NULL /\ ChildEdge(last'.c2, last'.c1) )
      => LET S == last'.c1
             P == last'.c2
             N == last'.new
         IN /\ N # NULL /\ N # S /\ N \notin colls
            /\ colls' = colls \cup {N}
            /\ children'[N] = children[S]
            /\ gobject'[N] = gobject[S]
            /\ FindIndex(children'[P], N) = FindIndex(children'[P], S) + 1
            /\ Without(children'[P], N) = children[P] ]_vars

\* A walk that passes through more collections than there are has met one
\* of them twice.
WalkBound == Cardinality(CollIds)

\* The walk of collection_object_cache_free from c, which also covers that of
\* BKE_collection_find_cycle, calls itself on every parent back-reference; it
\* comes to its end within `frames` nested calls.
RECURSIVE ParentWalkEnds(_, _)
ParentWalkEnds(c, frames) ==
  /\ frames > 0
  /\ \A i \in DOMAIN parents[c] : ParentWalkEnds(parents[c][i], frames - 1)

\* The walk of collection_object_cache_fill from c, which also covers that of
\* collection_find_child_recursive, calls itself on every child-edge; it
\* comes to its end within `frames` nested calls.
RECURSIVE ChildWalkEnds(_, _)
ChildWalkEnds(c, frames) ==
  /\ frames > 0
  /\ \A i \in DOMAIN children[c] :
       /\ children[c][i] # NULL
       /\ ChildWalkEnds(children[c][i], frames - 1)

\* C26: in every reachable state the walks over parent back-references (cycle
\* check, cache invalidation) and over child-edges (descendant check, cache
\* fill) come to their end from every collection, with no visited set.
C26_WalksEnd ==
  \A c \in colls : ParentWalkEnds(c, WalkBound) /\ ChildWalkEnds(c, WalkBound)

\* A child has just been added to a second parent, and one of its parents has
\* a parent itself: the walks from it pass by two routes and through two
\* levels.
C26_Witness ==
  /\ last.op = "child_add" /\ last.ret
  /\ Len(parents[last.c1]) >= 2
  /\ \E p \in Range(parents[last.c1]) : parents[p] # <<>>
  /\ \E a \in colls : \E m \in Range(children[a]) : m # NULL /\ children[m] # <<>>

\* The collections a selection from c covers: c and the collections below
\* it, each reached through collections that are not select-restricted.
RECURSIVE SelectReach(_)
SelectReach(S) ==
  LET T == S \cup { d \in UNION { Range(children[c]) \ {NULL} : c \in S } :
                      COLLECTION_RESTRICT_SELECT \notin flag[d] }
  IN IF T = S THEN S ELSE SelectReach(T)

SelectScope(c) ==
  IF COLLECTION_RESTRICT_SELECT \in flag[c] THEN {} ELSE SelectReach({c})

\* The step is a call of BKE_collection_objects_select that returned, after
\* which every object with a Base in the scope of the collection is
\* deselected, or selected if it can be, the other Bases are as they were,
\* and the call returned true iff a Base changed.
SelectDone ==
  LET objs == UNION { Range(gobject[c]) : c \in SelectScope(last'.c1) }
  IN /\ ~hung'
     /\ \A ob \in Objects :
          view_layer'[ob] =
            IF ob \notin objs \/ ~view_layer[ob].base THEN view_layer[ob]
            ELSE IF last'.b
              THEN [view_layer[ob] EXCEPT !.flag = @ \ {BASE_SELECTED}]
            ELSE IF BASE_SELECTABLED \in view_layer[ob].flag
              THEN [view_layer[ob] EXCEPT !.flag = @ \cup {BASE_SELECTED}]
            ELSE view_layer[ob]
     /\ last'.ret <=> (view_layer' # view_layer)

\* C27: with no view-layer overlay, BKE_collection_objects_select returns
\* for every collection, having selected or deselected the objects of the
\* collection and of its nested collections, and returns true iff the
\* selection state of an object changed.
C27_SelectReturns ==
  [][ last'.op = "select" => SelectDone ]_vars

\* The same for the collections that have no child collection or are
\* select-restricted.
C27_SelectReturnsWithoutChildren ==
  [][ ( /\ last'.op = "select"
        /\ \/ children[last'.c1] = <<>>
           \/ COLLECTION_RESTRICT_SELECT \in flag[last'.c1] )
      => SelectDone ]_vars

\* The list a complete fill of c gives in the current graph.
CompleteFill(c) == collection_object_cache_fill(World, <<>>, c, {})

C28_LockedCallersReturnCompleteList ==
  \A t \in Threads :
    (threads.pc[t] = "done" /\ threads.locked[t])
      => threads.result[t] = CompleteFill(threads.collection[t])

\* The step is a call dst.deep_copy_from(src) after which dst holds as many
\* inputs as src, each with the name of the input of src at its position,
\* and which read no position of src.inputs at or beyond src.num_inputs.
DeepCopied ==
  /\ inputs'.st = "ok" /\ ~inputs'.oob
  /\ Len(inputs'.set[inputs'.dst]) = Len(inputs.set[inputs'.src])
  /\ \A i \in DOMAIN inputs.set[inputs'.src] :
       inputs'.set[inputs'.dst][i] = inputs.set[inputs'.src][i]

\* C29: after dst.deep_copy_from(src), dst holds exactly src.num_inputs
\* inputs, dst.inputs[i] has the name of src.inputs[i] for every i, whatever
\* dst held before, and the copy read no index of src.inputs at or beyond
\* src.num_inputs.
C29_DeepCopyEqualsSource ==
  [][ inputs'.op = "deep_copy" => DeepCopied ]_vars

\* The same for a dst that held no input before the call.
C29_DeepCopyIntoEmptySet ==
  [][ (inputs'.op = "deep_copy" /\ inputs.set[inputs'.dst] = <<>>)
      => DeepCopied ]_vars

====
